---- MODULE Spec2Model ----
(***************************************************************************)
(* Chat reply resolution of flask_backend/app/routes/chat.py:              *)
(* _handle_chat with its helpers _fake_or_fallback, _friendly_fallback,    *)
(* _bool_env and _safe_abort_bad_request.  One request is a record that    *)
(* walks through the handler; the provider (google.generativeai) is the    *)
(* environment and answers each call with a value or with a raised error.  *)
(* Strings are sequences of one-character strings, so that strip(),        *)
(* slicing, join and len() are computed and not assumed.                   *)
(***************************************************************************)
EXTENDS Integers, Sequences, FiniteSets, TLC

VARIABLES env, req, shadow

vars == <<env, req, shadow>>

(***************************************************************************)
(* Bounds of the model and constants of the program                        *)
(***************************************************************************)
\* longest content-parts sequence of a provider candidate
MaxParts == 2
\* how far beyond the reply cap the provider texts and messages reach
MaxOver == 1
\* reply_text[:2000]
ReplyCap == 2000

(***************************************************************************)
(* Python values: None, a str, or some other object (an int)               *)
(***************************************************************************)
NoneVal == [tag |-> "none", val |-> <<>>]

IntVal == [tag |-> "int", val |-> <<>>]

Str(s) == [tag |-> "str", val |-> s]

\* a property whose read raises (response.text of a blocked response)
RaisesVal == [tag |-> "raises", val |-> <<>>]

\* an attribute the object does not have
MissingVal == [tag |-> "missing", val |-> <<>>]

IsStr(v) == v.tag = "str"

\* bool(v): None and "" are false, a non-empty str and a non-zero int true
Truthy(v) == (v.tag = "str" /\ v.val # <<>>) \/ v.tag = "int"

Whitespace == {" "}

Rep(c, n) == [i \in 1..n |-> c]

RECURSIVE FirstNonSpace(_, _)
FirstNonSpace(s, i) ==
    IF i > Len(s) \/ s[i] \notin Whitespace THEN i ELSE FirstNonSpace(s, i + 1)

RECURSIVE LastNonSpace(_, _)
LastNonSpace(s, i) ==
    IF i < 1 \/ s[i] \notin Whitespace THEN i ELSE LastNonSpace(s, i - 1)

\* str.strip(): drop leading and trailing whitespace
Strip(s) == SubSeq(s, FirstNonSpace(s, 1), LastNonSpace(s, Len(s)))

\* s[:n]
Take(s, n) == SubSeq(s, 1, IF Len(s) < n THEN Len(s) ELSE n)

RECURSIVE Join(_)
\* " ".join(strs)
Join(strs) ==
    IF strs = <<>> THEN <<>>
    ELSE IF Len(strs) = 1 THEN strs[1]
    ELSE strs[1] \o <<" ">> \o Join(Tail(strs))

(***************************************************************************)
(* String literals of the source                                           *)
(***************************************************************************)
FriendlyReply ==
    <<"S", "o", "r", "r", "y", ",", " ", "I", "'", "m", " ", "h", "a", "v",
      "i", "n", "g", " ", "t", "r", "o", "u", "b", "l", "e", " ", "r", "e",
      "s", "p", "o", "n", "d", "i", "n", "g", " ", "r", "i", "g", "h", "t",
      " ", "n", "o", "w", ".", " ", "P", "l", "e", "a", "s", "e", " ", "t",
      "r", "y", " ", "a", "g", "a", "i", "n", ".">>

EchoPrefix == <<"E", "c", "h", "o", ":", " ">>

MessageRequired ==
    <<"m", "e", "s", "s", "a", "g", "e", " ", "i", "s", " ", "r", "e", "q",
      "u", "i", "r", "e", "d">>

EmptyResponseMsg ==
    <<"M", "o", "d", "e", "l", " ", "r", "e", "t", "u", "r", "n", "e", "d",
      " ", "e", "m", "p", "t", "y", " ", "r", "e", "s", "p", "o", "n", "s",
      "e">>

\* the candidates in the wrong order
model_name_candidates_swapped == <<"gemini-pro", "gemini-1.5-flash">>

model_name_candidates == <<"gemini-1.5-flash", "gemini-pro">>

(***************************************************************************)
(* Errors                                                                  *)
(***************************************************************************)
Err(kind, msg) == [kind |-> kind, msg |-> msg]

NoError == Err("None", <<>>)

\* what the provider client may raise: a marshmallow ValidationError or
\* anything else (a timeout among them), each with some message
ErrKinds == {"ValidationError", "DeadlineExceeded"}

ErrMsgs == {<<"e", "1">>, <<"e", "2">>}

Errors == {Err(k, m) : k \in ErrKinds, m \in ErrMsgs}

EmptyResponseError == Err("RuntimeError", EmptyResponseMsg)

\* reading response.text raised
TextAccessError == Err("ValueError", <<"b", "l", "o", "c", "k", "e", "d">>)

\* reply_text.strip() on an object that is no str
NotAStringError == Err("AttributeError", <<"s", "t", "r", "i", "p">>)

(***************************************************************************)
(* Inputs: messages, environment, provider responses                       *)
(***************************************************************************)
LongMessage == Str(<<" ">> \o Rep("a", ReplyCap + MaxOver - 6) \o <<" ">>)

Messages ==
    {NoneVal, IntVal, Str(<<>>), Str(<<" ">>), Str(<<" ", " ">>),
     Str(<<"a">>), Str(<<" ", "a", " ", "b", " ">>), LongMessage}

ApiKeys == {NoneVal, Str(<<>>), Str(<<" ">>), Str(<<"k">>)}

\* values of ALLOW_FAKE_GEMINI; "unset" is the variable not being set
FlagValues == {"unset", "TRUE", "on", "0"}

Envs ==
    [api_key : ApiKeys, allow_fake_env : FlagValues, genai_available : BOOLEAN]

PartTexts == {MissingVal, Str(<<>>), Str(<<" ">>), Str(<<"a">>), Str(<<"b">>)}

PartSeqs == UNION {[1..n -> PartTexts] : n \in 0..MaxParts}

Cand(content, parts) == [content |-> content, parts |-> parts]

\* a candidate without a content attribute, one whose content has no parts
\* (reading them raises), and candidates with content parts
Cands ==
    {Cand("absent", <<>>), Cand("bad", <<>>)} \cup {Cand("ok", ps) : ps \in PartSeqs}

\* response.candidates: not there, an empty list, or a list whose first
\* entry is the candidate
CandLists ==
    {[has |-> FALSE, list |-> <<>>], [has |-> TRUE, list |-> <<>>]}
        \cup {[has |-> TRUE, list |-> <<c>>] : c \in Cands}

LongTexts ==
    {Str(Rep("a", ReplyCap + k)) : k \in 0..MaxOver}
        \cup {Str(<<" ">> \o Rep("a", ReplyCap - 1) \o <<" ", "b">>)}

UsedTexts ==
    {RaisesVal, IntVal, Str(<<" ">>), Str(<<"a">>), Str(<<" ", "a", " ">>)}
        \cup LongTexts

UnusedTexts == {NoneVal, Str(<<>>)}

Resp(text, cands) == [text |-> text, candidates |-> cands]

NoResponse == Resp(MissingVal, [has |-> FALSE, list |-> <<>>])

Responses ==
    {Resp(t, cl) : t \in UnusedTexts, cl \in CandLists}
        \cup {Resp(t, cl) : t \in UsedTexts,
                            cl \in {[has |-> FALSE, list |-> <<>>],
                                    [has |-> TRUE,
                                     list |-> <<Cand("ok", <<Str(<<"b">>)>>)>>]}}

\* what one provider call does: return, return a response, or raise
Ok == [type |-> "ok", err |-> NoError, resp |-> NoResponse]

Raise(e) == [type |-> "raise", err |-> e, resp |-> NoResponse]

Returns(r) == [type |-> "response", err |-> NoError, resp |-> r]

CallOutcomes == {Ok} \cup {Raise(e) : e \in Errors}

GenerateOutcomes == {Returns(r) : r \in Responses} \cup {Raise(e) : e \in Errors}

(***************************************************************************)
(* Helpers of the handler                                                  *)
(***************************************************************************)
\* str.lower() on the values the flag takes
Lower(s) == CASE s = "TRUE" -> "true" [] s = "False" -> "false" [] OTHER -> s

\* _bool_env(name, default=False): os.getenv(name, str(default)).lower()
_bool_env(value) ==
    LET val == Lower(IF value = "unset" THEN "False" ELSE value)
    IN  val \in {"1", "true", "yes", "on"}

ReplyBody(text) == [kind |-> "reply", val |-> text]

ErrorBody(msg) == [kind |-> "error", val |-> msg]

NoBody == [kind |-> "none", val |-> <<>>]

_friendly_fallback(message) == ReplyBody(FriendlyReply)

_fake_or_fallback(message, allow_fake) ==
    IF allow_fake THEN ReplyBody(EchoPrefix \o Strip(message.val))
    ELSE _friendly_fallback(message)

\* the handler returns a dict: the route answers 200 with it
Return200(r, body) == [r EXCEPT !.pc = "done", !.status = 200, !.body = body]

\* abort(400, message={"error": msg})
_safe_abort_bad_request(r, msg) ==
    [r EXCEPT !.pc = "done", !.status = 400, !.body = ErrorBody(msg)]

\* the reply without the hard cap
ProviderReplyUncapped(reply_text) == ReplyBody(Strip(reply_text.val))

\* reply_text = reply_text.strip(); return {"reply": reply_text[:2000]}
ProviderReply(reply_text) == ReplyBody(Take(Strip(reply_text.val), ReplyCap))

\* getattr(p, "text", "")
PartText(p) == IF p.tag = "missing" THEN Str(<<>>) ELSE p

\* the texts of the parts that have one, in order
PartStrings(parts) ==
    LET kept == SelectSeq(parts, LAMBDA p : Truthy(PartText(p)))
    IN  [i \in 1..Len(kept) |-> PartText(kept[i]).val]

\* the text of the first candidate's content parts; None when reading
\* them raises
CandidateText(cand) ==
    IF cand.content = "bad" THEN NoneVal
    ELSE LET parts == IF cand.content = "ok" THEN cand.parts ELSE <<>>
         IN  Str(Strip(Join(PartStrings(parts))))

\* reply_text before the emptiness test: response.text, or the text of the
\* first candidate when response.text is falsy and there are candidates
ExtractReplyText(response) ==
    LET direct == IF response.text.tag = "missing" THEN NoneVal ELSE response.text
    IN  IF ~Truthy(direct) /\ response.candidates.has
              /\ response.candidates.list # <<>>
        THEN CandidateText(response.candidates.list[1])
        ELSE direct

\* a failed attempt that tries the same candidate again
AttemptFailedRetries(r, e, got, outcome) ==
    [r EXCEPT !.last_error = e,
              !.results = Append(@, [model |-> model_name_candidates[r.idx],
                                     got |-> got, outcome |-> outcome]),
              !.pc = "construct"]

\* except Exception as e: last_error = e; continue
AttemptFailed(r, e, got, outcome) ==
    [r EXCEPT !.last_error = e,
              !.results = Append(@, [model |-> model_name_candidates[r.idx],
                                     got |-> got, outcome |-> outcome]),
              !.idx = @ + 1,
              !.pc = IF r.idx + 1 > Len(model_name_candidates)
                     THEN "exhausted" ELSE "construct"]

(***************************************************************************)
(* The steps of _handle_chat, each a function of the request record, the   *)
(* process environment and what the provider call of the step does         *)
(***************************************************************************)
NewRequest(message) ==
    [pc |-> "validate", message |-> message, allow_fake |-> FALSE, idx |-> 0,
     configure_error |-> NoError, last_error |-> NoError,
     response |-> NoResponse, ops |-> <<>>,
     results |-> <<>>, status |-> 0, body |-> NoBody]

\* no request: the record of a handler that is not running
Idle == [NewRequest(NoneVal) EXCEPT !.pc = "idle"]

\* a validator that forgets to trim
ValidateStepNoStrip(r) ==
    IF ~IsStr(r.message) \/ r.message.val = <<>>
    THEN _safe_abort_bad_request(r, MessageRequired)
    ELSE [r EXCEPT !.pc = "gate"]

\* if not isinstance(message, str) or not message.strip(): abort(400)
ValidateStep(r) ==
    IF ~IsStr(r.message) \/ Strip(r.message.val) = <<>>
    THEN _safe_abort_bad_request(r, MessageRequired)
    ELSE [r EXCEPT !.pc = "gate"]

\* a guard that takes a blank credential for a credential
GateStepBlankKey(r, e) ==
    LET allow_fake == _bool_env(e.allow_fake_env)
        api_key_present == Truthy(e.api_key)
        r1 == [r EXCEPT !.allow_fake = allow_fake]
    IN  IF ~api_key_present \/ ~e.genai_available
        THEN Return200(r1, _fake_or_fallback(r.message, allow_fake))
        ELSE [r1 EXCEPT !.pc = "configure"]

\* the initialization guard
GateStep(r, e) ==
    LET allow_fake == _bool_env(e.allow_fake_env)
        api_key_present == Truthy(e.api_key) /\ Strip(e.api_key.val) # <<>>
        r1 == [r EXCEPT !.allow_fake = allow_fake]
    IN  IF ~api_key_present \/ ~e.genai_available
        THEN Return200(r1, _fake_or_fallback(r.message, allow_fake))
        ELSE [r1 EXCEPT !.pc = "configure"]

\* a configuration step without the except ValidationError clause
ConfigureStepNoValidationClause(r, o) ==
    LET r1 == [r EXCEPT !.ops = Append(@, <<"configure", "">>),
                        !.configure_error = o.err]
    IN  IF o.type = "ok"
        THEN [r1 EXCEPT !.pc = "construct", !.idx = 1, !.last_error = NoError]
        ELSE Return200(r1, _fake_or_fallback(r.message, r.allow_fake))

\* genai.configure(api_key=api_key) inside the outer try
ConfigureStep(r, o) ==
    LET r1 == [r EXCEPT !.ops = Append(@, <<"configure", "">>),
                        !.configure_error = o.err]
    IN  IF o.type = "ok"
        THEN [r1 EXCEPT !.pc = "construct", !.idx = 1, !.last_error = NoError]
        ELSE IF o.err.kind = "ValidationError"
        THEN _safe_abort_bad_request(r1, o.err.msg)
        ELSE Return200(r1, _fake_or_fallback(r.message, r.allow_fake))

\* model = genai.GenerativeModel(model_name)
ConstructStep(r, o) ==
    LET r1 == [r EXCEPT !.ops =
                   Append(@, <<"GenerativeModel", model_name_candidates[r.idx]>>)]
    IN  IF o.type = "ok" THEN [r1 EXCEPT !.pc = "generate"]
        ELSE AttemptFailed(r1, o.err, FALSE, "error")

\* response = model.generate_content(prompt, request_options={"timeout": 15})
GenerateStep(r, o) ==
    LET r1 == [r EXCEPT !.ops =
                   Append(@, <<"generate_content", model_name_candidates[r.idx]>>)]
    IN  IF o.type = "response"
        THEN [r1 EXCEPT !.pc = "extract", !.response = o.resp]
        ELSE AttemptFailed(r1, o.err, FALSE, "error")

\* from reading response.text to the return or the raise
ExtractStep(r) ==
    IF r.response.text.tag = "raises"
    THEN AttemptFailed(r, TextAccessError, TRUE, "error")
    ELSE LET reply_text == ExtractReplyText(r.response)
         IN  IF ~Truthy(reply_text)
             THEN AttemptFailed(r, EmptyResponseError, TRUE, "empty")
             ELSE IF ~IsStr(reply_text)
             THEN AttemptFailed(r, NotAStringError, TRUE, "error")
             ELSE Return200(
                      [r EXCEPT !.results =
                           Append(@, [model |-> model_name_candidates[r.idx],
                                      got |-> TRUE, outcome |-> "success"])],
                      ProviderReply(reply_text))

\* a fallback that tells the caller the last error
ExhaustedStepLeaks(r) == Return200(r, ReplyBody(r.last_error.msg))

\* after the loop: all models failed
ExhaustedStep(r) == Return200(r, _fake_or_fallback(r.message, r.allow_fake))

(***************************************************************************)
(* One request                                                             *)
(***************************************************************************)
Init ==
    /\ env \in Envs
    /\ req \in {NewRequest(m) : m \in Messages}
    /\ shadow = Idle

Validate ==
    /\ req.pc = "validate"
    /\ req' = ValidateStep(req)
    /\ UNCHANGED <<env, shadow>>

Gate ==
    /\ req.pc = "gate"
    /\ req' = GateStep(req, env)
    /\ UNCHANGED <<env, shadow>>

Configure ==
    /\ req.pc = "configure"
    /\ \E o \in CallOutcomes : req' = ConfigureStep(req, o)
    /\ UNCHANGED <<env, shadow>>

Construct ==
    /\ req.pc = "construct"
    /\ \E o \in CallOutcomes : req' = ConstructStep(req, o)
    /\ UNCHANGED <<env, shadow>>

Generate ==
    /\ req.pc = "generate"
    /\ \E o \in GenerateOutcomes : req' = GenerateStep(req, o)
    /\ UNCHANGED <<env, shadow>>

Extract ==
    /\ req.pc = "extract"
    /\ req' = ExtractStep(req)
    /\ UNCHANGED <<env, shadow>>

Exhausted ==
    /\ req.pc = "exhausted"
    /\ req' = ExhaustedStep(req)
    /\ UNCHANGED <<env, shadow>>

Next ==
    \/ Validate
    \/ Gate
    \/ Configure
    \/ Construct
    \/ Generate
    \/ Extract
    \/ Exhausted

Spec == Init /\ [][Next]_vars

(***************************************************************************)
(* Two requests with the same message under the same environment, whose    *)
(* provider calls do the same except for the error they raise: a raise in  *)
(* one is a raise in the other, of any kind and message; a response in     *)
(* one is the same response in the other.                                  *)
(***************************************************************************)
FaultVariants(o) == IF o.type = "raise" THEN {Raise(e) : e \in Errors} ELSE {o}

InitPair ==
    /\ env \in Envs
    /\ \E m \in Messages : req = NewRequest(m) /\ shadow = NewRequest(m)

PairValidate ==
    /\ req.pc = "validate" /\ shadow.pc = "validate"
    /\ req' = ValidateStep(req)
    /\ shadow' = ValidateStep(shadow)
    /\ UNCHANGED env

PairGate ==
    /\ req.pc = "gate" /\ shadow.pc = "gate"
    /\ req' = GateStep(req, env)
    /\ shadow' = GateStep(shadow, env)
    /\ UNCHANGED env

PairConfigure ==
    /\ req.pc = "configure" /\ shadow.pc = "configure"
    /\ \E o1 \in CallOutcomes : \E o2 \in FaultVariants(o1) :
           /\ req' = ConfigureStep(req, o1)
           /\ shadow' = ConfigureStep(shadow, o2)
    /\ UNCHANGED env

PairConstruct ==
    /\ req.pc = "construct" /\ shadow.pc = "construct"
    /\ \E o1 \in CallOutcomes : \E o2 \in FaultVariants(o1) :
           /\ req' = ConstructStep(req, o1)
           /\ shadow' = ConstructStep(shadow, o2)
    /\ UNCHANGED env

PairGenerate ==
    /\ req.pc = "generate" /\ shadow.pc = "generate"
    /\ \E o1 \in GenerateOutcomes : \E o2 \in FaultVariants(o1) :
           /\ req' = GenerateStep(req, o1)
           /\ shadow' = GenerateStep(shadow, o2)
    /\ UNCHANGED env

PairExtract ==
    /\ req.pc = "extract" /\ shadow.pc = "extract"
    /\ req' = ExtractStep(req)
    /\ shadow' = ExtractStep(shadow)
    /\ UNCHANGED env

PairExhausted ==
    /\ req.pc = "exhausted" /\ shadow.pc = "exhausted"
    /\ req' = ExhaustedStep(req)
    /\ shadow' = ExhaustedStep(shadow)
    /\ UNCHANGED env

NextPair ==
    \/ PairValidate
    \/ PairGate
    \/ PairConfigure
    \/ PairConstruct
    \/ PairGenerate
    \/ PairExtract
    \/ PairExhausted

SpecPair == InitPair /\ [][NextPair]_vars

\* the two requests walk through the handler side by side
PairInStep == req.pc = shadow.pc \/ (req.pc = "done" /\ shadow.pc = "done")

(***************************************************************************)
(* Vocabulary of the claims                                                *)
(***************************************************************************)
Done(r) == r.pc = "done"

\* a message the Input Validator accepts: a string, non-empty once trimmed
ValidMessage(m) == m.tag = "str" /\ \E i \in 1..Len(m.val) : m.val[i] # " "

\* the gate triggers: credential absent or blank, or no provider client
Gated(e) ==
    \/ e.api_key.tag = "none"
    \/ \A i \in 1..Len(e.api_key.val) : e.api_key.val[i] = " "
    \/ ~e.genai_available

\* allowFakeMode of the environment
AllowFakeMode(e) == e.allow_fake_env \in {"TRUE", "on"}

RECURSIVE DropLeadingBlanks(_)
DropLeadingBlanks(s) ==
    IF s = <<>> \/ Head(s) # " " THEN s ELSE DropLeadingBlanks(Tail(s))

RECURSIVE DropTrailingBlanks(_)
DropTrailingBlanks(s) ==
    IF s = <<>> \/ s[Len(s)] # " " THEN s
    ELSE DropTrailingBlanks(SubSeq(s, 1, Len(s) - 1))

\* the message without its leading and trailing blanks
Trimmed(m) == DropTrailingBlanks(DropLeadingBlanks(m.val))

\* the Fallback Policy of the environment for the message
FallbackReply(m, e) ==
    IF AllowFakeMode(e) THEN ReplyBody(EchoPrefix \o Trimmed(m))
    ELSE ReplyBody(FriendlyReply)

OpsOn(r, op) == SelectSeq(r.ops, LAMBDA x : x[1] = op)

ModelsOf(ops) == [i \in 1..Len(ops) |-> ops[i][2]]

ResultModels(r) == [i \in 1..Len(r.results) |-> r.results[i].model]

NoSuccess(r) == \A i \in 1..Len(r.results) : r.results[i].outcome # "success"

\* the last concluded attempt received a response, which r.response still is
LastAttemptGot(r) ==
    /\ r.results # <<>>
    /\ r.results[Len(r.results)].got
    /\ r.pc # "extract"

LastResult(r) == r.results[Len(r.results)]

\* a direct text field that is a string, empty or not
HasDirectText(resp) == resp.text.tag = "str"

\* the direct text is no usable reply: none, empty, or blank
NoUsableDirectText(resp) ==
    resp.text.tag = "none"
        \/ (resp.text.tag = "str"
                /\ \A i \in 1..Len(resp.text.val) : resp.text.val[i] = " ")

\* the response has a first candidate with content parts
HasContentParts(resp) ==
    /\ resp.candidates.has
    /\ resp.candidates.list # <<>>
    /\ resp.candidates.list[1].content = "ok"

\* what the nested candidate/parts extraction yields
NestedText(resp) ==
    IF HasContentParts(resp)
    THEN Strip(Join(PartStrings(resp.candidates.list[1].parts)))
    ELSE <<>>

(***************************************************************************)
(* C1: a request whose message is null, not a string, empty or blank ends  *)
(* with status 400 and an error body, and at no point of its handling has  *)
(* any provider operation been invoked, whatever the environment is.       *)
(***************************************************************************)
C1_InvalidMessageRejected ==
    ~ValidMessage(req.message) =>
        /\ req.ops = <<>>
        /\ req.pc \in {"validate", "done"}
        /\ Done(req) => req.status = 400 /\ req.body.kind = "error"

\* a blank message rejected although the provider could have been used
C1_Witness ==
    /\ Done(req)
    /\ req.message = Str(<<" ", " ">>)
    /\ ~Gated(env) /\ AllowFakeMode(env)
    /\ req.status = 400
    /\ req.body = ErrorBody(MessageRequired)

C3_ExhaustedGivesApology ==
    (Done(req) /\ ~Gated(env) /\ req.idx >= 1 /\ NoSuccess(req)) =>
        /\ req.status = 200
        /\ req.body = ReplyBody(FriendlyReply)
        /\ ModelsOf(OpsOn(req, "GenerativeModel")) = <<"gemini-1.5-flash", "gemini-pro">>

(***************************************************************************)
(* C3 amended: when the gate passes and every candidate attempt fails,     *)
(* the response is 200 with the fixed apology string if allowFakeMode is   *)
(* false and with "Echo: " + the trimmed message if it is true, and both   *)
(* candidates were attempted, primary first, each once.                    *)
(***************************************************************************)
C3_ExhaustedGivesFallback ==
    (Done(req) /\ ~Gated(env) /\ req.idx >= 1 /\ NoSuccess(req)) =>
        /\ req.status = 200
        /\ req.body = FallbackReply(req.message, env)
        /\ ModelsOf(OpsOn(req, "GenerativeModel")) = <<"gemini-1.5-flash", "gemini-pro">>
        /\ ResultModels(req) = <<"gemini-1.5-flash", "gemini-pro">>

\* both candidates failed, one by an error and one by an empty extraction,
\* and the stub echoes the message
C3_Witness ==
    /\ Done(req)
    /\ ~Gated(env) /\ AllowFakeMode(env)
    /\ Len(req.results) = 2
    /\ req.results[1].outcome = "error"
    /\ req.results[2].outcome = "empty"
    /\ req.message = Str(<<" ", "a", " ", "b", " ">>)
    /\ req.body = ReplyBody(EchoPrefix \o <<"a", " ", "b">>)

(***************************************************************************)
(* C4: when the first candidate's response has a non-empty direct text,    *)
(* the request ends there: status 200, the reply is that text trimmed and  *)
(* cut to its first 2000 characters, so at most 2000 long, and the second  *)
(* candidate is never attempted.                                           *)
(***************************************************************************)
C4_FirstDirectTextReturned ==
    (/\ Len(req.results) = 1
     /\ LastAttemptGot(req)
     /\ HasDirectText(req.response)
     /\ req.response.text.val # <<>>) =>
        /\ Done(req)
        /\ req.status = 200
        /\ req.results[1].outcome = "success"
        /\ req.body = ReplyBody(Take(Trimmed(req.response.text), ReplyCap))
        /\ Len(req.body.val) <= ReplyCap
        /\ \A i \in 1..Len(req.ops) : req.ops[i][2] # "gemini-pro"

\* a text of more than 2000 characters with blanks around it, cut to 2000
C4_Witness ==
    /\ Done(req)
    /\ Len(req.results) = 1
    /\ req.results[1].outcome = "success"
    /\ Len(req.response.text.val) > ReplyCap
    /\ req.response.text.val[1] = " "
    /\ Len(req.body.val) = ReplyCap
    /\ req.body.val[1] = "a"

(***************************************************************************)
(* C5: with a valid message and the gate triggering, no provider           *)
(* operation is invoked and the response is 200 with "Echo: " + the        *)
(* trimmed message if allowFakeMode is true, and with the fixed apology    *)
(* string if it is false.                                                  *)
(***************************************************************************)
C5_GatedGivesFallback ==
    (ValidMessage(req.message) /\ Gated(env)) =>
        /\ req.ops = <<>>
        /\ req.pc \in {"validate", "gate", "done"}
        /\ Done(req) => req.status = 200 /\ req.body = FallbackReply(req.message, env)

\* a blank credential with the client there: the stub echoes the message
C5_Witness ==
    /\ Done(req)
    /\ env.api_key = Str(<<" ">>) /\ env.genai_available
    /\ env.allow_fake_env = "TRUE"
    /\ req.message = Str(<<" ", "a", " ", "b", " ">>)
    /\ req.status = 200
    /\ req.body = ReplyBody(<<"E", "c", "h", "o", ":", " ", "a", " ", "b">>)

(***************************************************************************)
(* C6: every reply returned with status 200 is non-empty and at most 2000  *)
(* characters long.                                                        *)
(***************************************************************************)
C6_ReplyNonEmptyAndCapped ==
    (Done(req) /\ req.status = 200) =>
        /\ req.body.kind = "reply"
        /\ req.body.val # <<>>
        /\ Len(req.body.val) <= ReplyCap

(***************************************************************************)
(* C7: when the first candidate yields an empty extraction and the second  *)
(* candidate's response has no usable direct text but a first candidate    *)
(* with content parts whose texts are not all empty, the reply is the      *)
(* non-empty texts of the parts, in order, joined by single spaces and     *)
(* trimmed.                                                                *)
(***************************************************************************)
C7_SecondCandidatePartsJoined ==
    (/\ Done(req)
     /\ Len(req.results) = 2
     /\ req.results[1].outcome = "empty"
     /\ LastAttemptGot(req)
     /\ NoUsableDirectText(req.response)
     /\ HasContentParts(req.response)
     /\ NestedText(req.response) # <<>>) =>
        /\ req.status = 200
        /\ req.body = ReplyBody(NestedText(req.response))

(***************************************************************************)
(* C8: an attempt is a success only when its extracted text is non-empty   *)
(* after trimming: when the direct text is empty or blank and the nested   *)
(* extraction yields nothing, the attempt is a failure and the sequencer   *)
(* moves to the next candidate or to the fallback.                         *)
(***************************************************************************)
C8_SuccessOnlyWithNonEmptyText ==
    LastAttemptGot(req) =>
        /\ LastResult(req).outcome = "success" => Trimmed(req.body) # <<>>
        /\ (/\ HasDirectText(req.response)
            /\ NoUsableDirectText(req.response)
            /\ NestedText(req.response) = <<>>) =>
               /\ LastResult(req).outcome = "empty"
               /\ req.idx = Len(req.results) + 1

(***************************************************************************)
(* C9: within a request each candidate is attempted at most once, the      *)
(* primary before the secondary, the secondary only after the primary      *)
(* attempt ended in failure, and there are at most two generation calls.   *)
(***************************************************************************)
C9_CandidatesOnceInOrder ==
    LET cons == ModelsOf(OpsOn(req, "GenerativeModel"))
        gens == ModelsOf(OpsOn(req, "generate_content"))
    IN  /\ Len(gens) <= 2
        /\ cons \in {<<>>, <<"gemini-1.5-flash">>, <<"gemini-1.5-flash", "gemini-pro">>}
        /\ gens \in {<<>>, <<"gemini-1.5-flash">>, <<"gemini-pro">>,
                     <<"gemini-1.5-flash", "gemini-pro">>}
        /\ Len(OpsOn(req, "configure")) <= 1
        /\ (\E i \in 1..Len(req.ops) : req.ops[i][2] = "gemini-pro") =>
               /\ req.results # <<>>
               /\ req.results[1].model = "gemini-1.5-flash"
               /\ req.results[1].outcome # "success"
               /\ req.ops[Len(req.ops)][2] = "gemini-pro"

\* the primary failed after its generation call and the secondary was called
C9_Witness ==
    /\ Done(req)
    /\ ModelsOf(OpsOn(req, "generate_content")) = <<"gemini-1.5-flash", "gemini-pro">>
    /\ req.results[1].outcome = "empty"
    /\ req.results[2].outcome = "success"

====
